---- MODULE Spec2Model ----
(***************************************************************************)
(* Contact form: the Form Controller (src/src/App.tsx) and the Submission  *)
(* Relay (src/unnamed/part_000, a Deno.serve handler).                     *)
(*                                                                         *)
(* A JavaScript string is a sequence of characters, each a TLA+ string.  A *)
(* JSON value is a record [t, s, n]: t is "undefined", "string" or         *)
(* "number".                                                               *)
(***************************************************************************)
EXTENDS Integers, Sequences, FiniteSets, TLC

VARIABLES
  formData,       \* App.tsx:22  useState<FormData>
  errors,         \* App.tsx:29  useState<FormErrors>; a key that is absent or undefined is Undefined
  status,         \* App.tsx:30  useState<SubmissionStatus>
  statusMessage,  \* App.tsx:31  useState('')
  calls,          \* the sendContactEmail(formData) calls awaited at App.tsx:85, by payload
  last,           \* the event most recently handled by the Form Controller
  inbox,          \* the Requests on their way to the relay, in order of arrival
  apiKey,         \* the RESEND_API_KEY of the environment, as Deno.env.get would read it now
  inv             \* the invocations of the relay handler (part_000:10), by order of arrival

vars == <<formData, errors, status, statusMessage, calls, last, inbox, apiKey, inv>>
clientVars == <<formData, errors, status, statusMessage, calls, last>>
relayVars == <<inbox, apiKey, inv>>

-----------------------------------------------------------------------------
(* Strings *)

\* the characters matched by \s and removed by String.prototype.trim: WhiteSpace
\* and LineTerminator of ECMAScript.  A character TLA+ has no escape for is
\* written as its code point.
Whitespace ==
  {" ", "\t", "\n", "\f", "\r", "U+000B", "U+00A0", "U+1680",
   "U+2000", "U+2001", "U+2002", "U+2003", "U+2004", "U+2005", "U+2006", "U+2007",
   "U+2008", "U+2009", "U+200A", "U+2028", "U+2029", "U+202F", "U+205F", "U+3000",
   "U+FEFF"}

Rep(c, n) == [i \in 1..n |-> c]

SetMin(S) == CHOOSE x \in S : \A y \in S : x <= y
SetMax(S) == CHOOSE x \in S : \A y \in S : x >= y

\* String.prototype.trim
trim(s) ==
  LET ink == {i \in 1..Len(s) : s[i] \notin Whitespace}
  IN IF ink = {} THEN <<>> ELSE SubSeq(s, SetMin(ink), SetMax(ink))

\* all strings over alphabet A of length at most n
StringsUpTo(A, n) == UNION {[1..k -> A] : k \in 0..n}

\* one character of the class [^\s@]
NonSpaceNonAt(c) == c \notin Whitespace /\ c # "@"

\* /^[^\s@]+@[^\s@]+\.[^\s@]+$/.test(s): some "@" at i and some "." at j split s
\* into three non-empty runs of [^\s@]
emailRegexTest(s) ==
  \E i \in 1..Len(s) : \E j \in 1..Len(s) :
    /\ s[i] = "@"
    /\ s[j] = "."
    /\ 1 < i
    /\ i + 1 < j
    /\ j < Len(s)
    /\ \A k \in 1..Len(s) : k \notin {i, j} => NonSpaceNonAt(s[k])

-----------------------------------------------------------------------------
(* Form Controller: src/src/App.tsx *)

Fields == {"name", "email", "subject", "message"}

Undefined == "undefined"

\* the fixed texts (the source's are Korean; named here by what they say)
NameRequired == "name: required"
EmailRequired == "email: required"
EmailInvalid == "email: invalid format"
SubjectRequired == "subject: required"
MessageRequired == "message: required"
MessageTooShort == "message: at least 10 characters"
SuccessMessage == "sent successfully"
FailureMessage == "sending failed, try again later"

MinMessageLength == 10

EmptyForm == [name |-> <<>>, email |-> <<>>, subject |-> <<>>, message |-> <<>>]
NoErrors == [f \in Fields |-> Undefined]

validateEmail(email) == emailRegexTest(email)

\* validateForm without the name rule
nameErrorOmitted(data) == Undefined

nameError(data) ==
  IF trim(data.name) = <<>> THEN NameRequired ELSE Undefined

\* the email rule testing the pattern on the trimmed value
emailErrorTrimmed(data) ==
  IF trim(data.email) = <<>> THEN EmailRequired
  ELSE IF ~validateEmail(trim(data.email)) THEN EmailInvalid
  ELSE Undefined

emailError(data) ==
  IF trim(data.email) = <<>> THEN EmailRequired
  ELSE IF ~validateEmail(data.email) THEN EmailInvalid
  ELSE Undefined

subjectError(data) ==
  IF trim(data.subject) = <<>> THEN SubjectRequired ELSE Undefined

messageErrorRawLength(data) ==
  IF trim(data.message) = <<>> THEN MessageRequired
  ELSE IF Len(data.message) < MinMessageLength THEN MessageTooShort
  ELSE Undefined

messageError(data) ==
  IF trim(data.message) = <<>> THEN MessageRequired
  ELSE IF Len(trim(data.message)) < MinMessageLength THEN MessageTooShort
  ELSE Undefined

\* newErrors as built by validateForm: the first failing field only
newErrorsShortCircuit(data) ==
  IF nameError(data) # Undefined THEN [NoErrors EXCEPT !["name"] = nameError(data)]
  ELSE IF emailError(data) # Undefined THEN [NoErrors EXCEPT !["email"] = emailError(data)]
  ELSE IF subjectError(data) # Undefined THEN [NoErrors EXCEPT !["subject"] = subjectError(data)]
  ELSE [NoErrors EXCEPT !["message"] = messageError(data)]

\* newErrors as built by validateForm
newErrors(data) ==
  [f \in Fields |->
     CASE f = "name" -> nameError(data)
       [] f = "email" -> emailError(data)
       [] f = "subject" -> subjectError(data)
       [] f = "message" -> messageError(data)]

\* Object.keys(newErrors).length === 0
validateForm(data) == \A f \in Fields : newErrors(data)[f] = Undefined

\* inputs the user types, by field (App.tsx:125-213: four uncontrolled-length text inputs)
MessageFill == Rep("a", MinMessageLength - 1)

NameInputs == {<<>>, <<" ">>, <<"a">>, <<"a", " ">>}
EmailInputs == {<<>>, <<"a", "@", "b", ".", "c">>, <<"a", "@", "b">>, <<" ", "a", "@", "b", ".", "c">>}
SubjectInputs == {<<>>, <<"s">>}
MessageInputs == {<<>>, MessageFill, MessageFill \o <<"a">>, <<" ">> \o MessageFill \o <<"\n">>}

InputsOf(f) ==
  CASE f = "name" -> NameInputs
    [] f = "email" -> EmailInputs
    [] f = "subject" -> SubjectInputs
    [] f = "message" -> MessageInputs

\* what one awaited sendContactEmail call can do: the relay answered, or the
\* transport failed
NoOutcome == [kind |-> "none", status |-> 0, error |-> ""]
TransportException == [kind |-> "exception", status |-> 0, error |-> ""]

\* an event: the operation; for updateField the field, the value typed and
\* whether the field had an error recorded; for a completed call its outcome and
\* whether the form had been edited since the call was issued
Event(op, field, value, hadError, outcome, edited) ==
  [op |-> op, field |-> field, value |-> value, hadError |-> hadError,
   outcome |-> outcome, edited |-> edited]

\* the submit button is disabled while loading (App.tsx:226)
SubmitAlwaysEnabled == TRUE

SubmitEnabled == status # "loading"

\* reset buttons that are always there
ResetAlwaysEnabled == TRUE

\* the reset buttons exist only in the success and error banners (App.tsx:244, 259)
ResetEnabled == status \in {"success", "error"}

\* handleInputChange that trims the typed value
handleInputChangeTrimmed(f, v) ==
  /\ formData' = [formData EXCEPT ![f] = trim(v)]
  /\ errors' = IF errors[f] # Undefined THEN [errors EXCEPT ![f] = Undefined] ELSE errors
  /\ UNCHANGED <<status, statusMessage, calls>>

\* handleInputChange that writes into the object the awaited call was given
handleInputChangeShared(f, v) ==
  /\ formData' = [formData EXCEPT ![f] = v]
  /\ errors' = IF errors[f] # Undefined THEN [errors EXCEPT ![f] = Undefined] ELSE errors
  /\ calls' = [i \in DOMAIN calls |-> [calls[i] EXCEPT ![f] = v]]
  /\ UNCHANGED <<status, statusMessage>>

\* handleInputChange (App.tsx:65-73)
handleInputChange(f, v) ==
  /\ formData' = [formData EXCEPT ![f] = v]
  /\ errors' = IF errors[f] # Undefined THEN [errors EXCEPT ![f] = Undefined] ELSE errors
  /\ UNCHANGED <<status, statusMessage, calls>>

UpdateField ==
  \E f \in Fields : \E v \in InputsOf(f) :
    /\ handleInputChange(f, v)
    /\ last' = Event("updateField", f, v, errors[f] # Undefined, NoOutcome, FALSE)
    /\ UNCHANGED relayVars

\* handleSubmit that sets loading before it validates
handleSubmitLoadingFirst ==
  /\ errors' = newErrors(formData)
  /\ status' = "loading"
  /\ IF validateForm(formData)
       THEN calls' = Append(calls, formData)
       ELSE calls' = calls
  /\ UNCHANGED <<formData, statusMessage>>

\* handleSubmit up to its await (App.tsx:75-85)
handleSubmit ==
  /\ errors' = newErrors(formData)
  /\ IF validateForm(formData)
       THEN /\ status' = "loading"
            /\ calls' = Append(calls, formData)
       ELSE /\ UNCHANGED <<status, calls>>
  /\ UNCHANGED <<formData, statusMessage>>

Submit ==
  /\ SubmitEnabled
  /\ handleSubmit
  /\ last' = Event(IF validateForm(formData) THEN "submitAccepted" ELSE "submitRejected",
                   "", <<>>, FALSE, NoOutcome, FALSE)
  /\ UNCHANGED relayVars

\* the try branch after the await that keeps the form (App.tsx:87-88 only)
onResolvedKeepForm ==
  /\ status' = "success"
  /\ statusMessage' = SuccessMessage
  /\ UNCHANGED <<formData, errors>>

\* the try branch after the await without setStatusMessage
onResolvedNoMessage ==
  /\ status' = "success"
  /\ formData' = EmptyForm
  /\ UNCHANGED <<statusMessage, errors>>

\* handleSubmit after the await resolved (App.tsx:87-89)
onResolved ==
  /\ status' = "success"
  /\ statusMessage' = SuccessMessage
  /\ formData' = EmptyForm
  /\ UNCHANGED errors

\* the catch branch that also clears the form
onRejectedClearForm ==
  /\ status' = "error"
  /\ statusMessage' = FailureMessage
  /\ formData' = EmptyForm
  /\ UNCHANGED errors

\* the catch branch without setStatus
onRejectedStaysLoading ==
  /\ statusMessage' = FailureMessage
  /\ UNCHANGED <<status, formData, errors>>

\* handleSubmit after the await threw (App.tsx:90-94)
onRejected ==
  /\ status' = "error"
  /\ statusMessage' = FailureMessage
  /\ UNCHANGED <<formData, errors>>

\* resetStatus that leaves the message
resetStatusKeepMessage ==
  /\ status' = "idle"
  /\ UNCHANGED <<statusMessage, formData, errors, calls>>

\* resetStatus (App.tsx:97-100)
resetStatus ==
  /\ status' = "idle"
  /\ statusMessage' = ""
  /\ UNCHANGED <<formData, errors, calls>>

ResetStatus ==
  /\ ResetEnabled
  /\ resetStatus
  /\ last' = Event("resetStatus", "", <<>>, FALSE, NoOutcome, FALSE)
  /\ UNCHANGED relayVars

-----------------------------------------------------------------------------
(* Submission Relay: src/unnamed/part_000 *)

\* JSON values: a property that is absent reads as undefined
Undef == [t |-> "undefined", s |-> <<>>, n |-> 0]
Str(s) == [t |-> "string", s |-> s, n |-> 0]
Num(n) == [t |-> "number", s |-> <<>>, n |-> n]

\* JavaScript truthiness, as tested by !x
Truthy(v) ==
  \/ v.t = "string" /\ v.s # <<>>
  \/ v.t = "number" /\ v.n # 0

Digits == <<"0", "1", "2", "3", "4", "5", "6", "7", "8", "9">>

\* String(v) of a string or of a number 0..9, as regex.test and a template literal coerce
toStr(v) ==
  CASE v.t = "string" -> v.s
    [] v.t = "number" -> <<Digits[v.n + 1]>>
    [] OTHER -> <<"u", "n", "d", "e", "f", "i", "n", "e", "d">>

\* message.replace(/\n/g, '<br>') (part_000:89)
replaceNewlines(s) == [i \in 1..Len(s) |-> IF s[i] = "\n" THEN "<br>" ELSE s[i]]

\* a Request: its method, whether req.json() yields a value whose properties can
\* be read (it neither throws nor yields null), and that value's four properties
Request(method, parses, name, email, subject, message) ==
  [method |-> method, parses |-> parses,
   name |-> name, email |-> email, subject |-> subject, message |-> message]

\* a Response: status, its JSON body as a set of <<key, value>> pairs (hasBody
\* FALSE: the null body), the checks the handler ran, and the payloads it sent
\* to the provider
Response(st, hasBody, body, steps, sent) ==
  [status |-> st, hasBody |-> hasBody, body |-> body, steps |-> steps, sent |-> sent]

NoResponse == Response(0, FALSE, {}, <<>>, <<>>)

ErrorBody(text) == {<<"error", text>>}

\* a handler without its try/catch: the throw escapes and no Response is built
UnhandledRejection(steps, sent) == Response(0, FALSE, {}, steps, sent)

\* the catch block (part_000:141-154)
InternalError(steps, sent) ==
  Response(500, TRUE,
           {<<"error", "Internal server error">>, <<"message", "error while sending mail">>},
           steps, sent)

\* emailPayload (part_000:69-99)
EmailPayload(name, email, subject, message) ==
  [from |-> "mastery0621@gmail.com",
   to |-> <<"mastery0621@gmail.com">>,
   subject |-> <<"new inquiry: ">> \o toStr(subject),
   html |-> <<toStr(name), toStr(email), toStr(subject), replaceNewlines(message.s)>>]

\* what the delivery provider does when it answers a call: fetch throws, or
\* answers ok / not ok with a body that response.json() can decode or not; a
\* decoded body may carry an id (on success) or a message (on failure)
ProviderOutcome(kind, decodes, hasId, id, hasMessage, message) ==
  [kind |-> kind, decodes |-> decodes, hasId |-> hasId, id |-> id,
   hasMessage |-> hasMessage, message |-> message]

\* details that drop what the provider said
deliveryDetailsDropped(p) == "Unknown error"

\* errorData.message || 'Unknown error' (part_000:117)
deliveryDetails(p) ==
  IF p.hasMessage /\ p.message # "" THEN p.message ELSE "Unknown error"

\* where the async handler stands after a run of synchronous code: it returned
\* a Response, or it is suspended at an await ("json": req.json() at line 29,
\* "fetch": fetch at line 101, "decode": response.json() at line 111 or 126),
\* with the checks it has run and the payloads it has sent
Returned(r) == [pc |-> "done", steps |-> r.steps, sent |-> r.sent, resp |-> r]
Awaiting(pc, steps, sent) == [pc |-> pc, steps |-> steps, sent |-> sent, resp |-> NoResponse]

\* the handler without its OPTIONS branch
onRequestNoPreflight(r) ==
  IF r.method # "POST" THEN
    Returned(Response(405, TRUE, ErrorBody("Method not allowed"), <<"method">>, <<>>))
  ELSE Awaiting("json", <<"method", "parse">>, <<>>)

\* the handler from its invocation to its first await (part_000:10-29)
onRequest(r) ==
  IF r.method = "OPTIONS" THEN Returned(Response(200, FALSE, {}, <<>>, <<>>))
  ELSE IF r.method # "POST" THEN
    Returned(Response(405, TRUE, ErrorBody("Method not allowed"), <<"method">>, <<>>))
  ELSE Awaiting("json", <<"method", "parse">>, <<>>)

\* the handler reading the credential before it validates
onJsonCredentialFirst(r, key, steps) ==
  IF ~r.parses THEN Returned(InternalError(steps, <<>>))
  ELSE IF ~Truthy(key) THEN
    Returned(Response(500, TRUE, ErrorBody("Email service not configured"),
                      steps \o <<"credential">>, <<>>))
  ELSE IF ~Truthy(r.name) \/ ~Truthy(r.email) \/ ~Truthy(r.subject) \/ ~Truthy(r.message) THEN
    Returned(Response(400, TRUE, ErrorBody("All fields are required"),
                      steps \o <<"credential", "required">>, <<>>))
  ELSE IF ~emailRegexTest(toStr(r.email)) THEN
    Returned(Response(400, TRUE, ErrorBody("Invalid email format"),
                      steps \o <<"credential", "required", "email">>, <<>>))
  ELSE IF r.message.t # "string" THEN
    Returned(InternalError(steps \o <<"credential", "required", "email", "payload">>, <<>>))
  ELSE Awaiting("fetch",
                steps \o <<"credential", "required", "email", "payload", "provider">>,
                <<EmailPayload(r.name, r.email, r.subject, r.message)>>)

\* the handler from the settling of req.json() to its next await
\* (part_000:29-108): key is the credential the environment holds at that
\* moment; a throw lands in the catch block
onJson(r, key, steps) ==
  IF ~r.parses THEN Returned(InternalError(steps, <<>>))
  ELSE IF ~Truthy(r.name) \/ ~Truthy(r.email) \/ ~Truthy(r.subject) \/ ~Truthy(r.message) THEN
    Returned(Response(400, TRUE, ErrorBody("All fields are required"),
                      steps \o <<"required">>, <<>>))
  ELSE IF ~emailRegexTest(toStr(r.email)) THEN
    Returned(Response(400, TRUE, ErrorBody("Invalid email format"),
                      steps \o <<"required", "email">>, <<>>))
  ELSE IF ~Truthy(key) THEN
    Returned(Response(500, TRUE, ErrorBody("Email service not configured"),
                      steps \o <<"required", "email", "credential">>, <<>>))
  ELSE IF r.message.t # "string" THEN
    Returned(InternalError(steps \o <<"required", "email", "credential", "payload">>, <<>>))
  ELSE Awaiting("fetch",
                steps \o <<"required", "email", "credential", "payload", "provider">>,
                <<EmailPayload(r.name, r.email, r.subject, r.message)>>)

\* the handler from the settling of fetch to its next await (part_000:101-111,
\* 126): a rejected fetch lands in the catch block, an answer is decoded
onFetch(p, steps, sent) ==
  IF p.kind = "throws" THEN Returned(InternalError(steps, sent))
  ELSE Awaiting("decode", Append(steps, "decode"), sent)

\* the decoded failure answered by sending the payload again
onDecodeRetry(p, steps, sent) ==
  IF ~p.decodes THEN Returned(InternalError(steps, sent))
  ELSE IF p.kind = "notOk" THEN
    Awaiting("fetch", Append(steps, "provider"), sent \o sent)
  ELSE
    Returned(Response(200, TRUE,
                      {<<"success", "true">>, <<"message", "mail sent successfully">>}
                        \cup (IF p.hasId THEN {<<"id", p.id>>} ELSE {}),
                      steps, sent))

\* the handler from the settling of response.json() to its return
\* (part_000:110-139)
onDecode(p, steps, sent) ==
  IF ~p.decodes THEN Returned(InternalError(steps, sent))
  ELSE IF p.kind = "notOk" THEN
    Returned(Response(500, TRUE,
                      {<<"error", "Failed to send email">>, <<"details", deliveryDetails(p)>>},
                      steps, sent))
  ELSE
    Returned(Response(200, TRUE,
                      {<<"success", "true">>, <<"message", "mail sent successfully">>}
                        \cup (IF p.hasId THEN {<<"id", p.id>>} ELSE {}),
                      steps, sent))

\* the Response of the Deno.serve handler (part_000:10-155) when each of its
\* awaits settles: key is the credential read at line 55, p what the provider did
handler(r, key, p) ==
  LET a == onRequest(r)
      b == onJson(r, key, a.steps)
      c == onFetch(p, b.steps, b.sent)
  IN IF a.pc = "done" THEN a.resp
     ELSE IF b.pc = "done" THEN b.resp
     ELSE IF c.pc = "done" THEN c.resp
     ELSE onDecode(p, c.steps, c.sent).resp

\* the requests, credentials and provider behaviours explored
Methods == {"OPTIONS", "POST", "GET"}
NameValues == {Undef, Str(<<>>), Str(<<" ">>), Str(<<"a">>), Num(7)}
EmailValues ==
  {Undef, Str(<<>>), Str(<<"a", "@", "b", ".", "c">>), Str(<<"a", "@", "b">>), Num(7)}
SubjectValues == {Undef, Str(<<>>), Str(<<"s">>), Str(<<"U+00A0">>)}
MessageValues == {Undef, Str(<<>>), Str(<<"h", "i", "\n", "!">>), Num(0), Num(7)}

Requests ==
  {Request(m, TRUE, n, e, s, g) :
     m \in Methods, n \in NameValues, e \in EmailValues, s \in SubjectValues, g \in MessageValues}
  \cup {Request(m, FALSE, Undef, Undef, Undef, Undef) : m \in Methods}

ApiKeys == {Undef, Str(<<>>), Str(<<"k">>)}

ProviderOutcomes ==
  {ProviderOutcome("throws", FALSE, FALSE, "", FALSE, ""),
   ProviderOutcome("ok", TRUE, TRUE, "re_1", FALSE, ""),
   ProviderOutcome("ok", TRUE, FALSE, "", FALSE, ""),
   ProviderOutcome("ok", FALSE, FALSE, "", FALSE, ""),
   ProviderOutcome("notOk", TRUE, FALSE, "", TRUE, "quota exceeded"),
   ProviderOutcome("notOk", TRUE, FALSE, "", TRUE, ""),
   ProviderOutcome("notOk", TRUE, FALSE, "", FALSE, ""),
   ProviderOutcome("notOk", FALSE, FALSE, "", FALSE, "")}

NoRequest == Request("", FALSE, Undef, Undef, Undef, Undef)
NoProvider == ProviderOutcome("", FALSE, FALSE, "", FALSE, "")

\* the credential of an invocation that has not reached line 55
NoKey == [t |-> "unread", s |-> <<>>, n |-> 0]

\* the invocations that can be in progress at once
MaxInvocations == 2

Invocations == 1..MaxInvocations

\* one invocation: its Request, the credential it read at line 55, what the
\* provider answered its fetch, where the handler stands (k), and whether the
\* operation it awaits will never settle
Invocation(r, key, p, k) ==
  [req |-> r, key |-> key, provider |-> p,
   pc |-> k.pc, steps |-> k.steps, sent |-> k.sent, resp |-> k.resp, stalled |-> FALSE]

NotInvoked == Invocation(NoRequest, NoKey, NoProvider, Awaiting("none", <<>>, <<>>))

Invoked == {i \in Invocations : inv[i].pc # "none"}

ReadsCredential(k) == \E n \in 1..Len(k.steps) : k.steps[n] = "credential"

\* Deno.serve calls the handler with the next Request; it runs to its first
\* await or to its return (part_000:10-29)
Invoke ==
  /\ inbox # <<>>
  /\ Cardinality(Invoked) < MaxInvocations
  /\ inv' = [inv EXCEPT ![Cardinality(Invoked) + 1] =
               Invocation(Head(inbox), NoKey, NoProvider, onRequest(Head(inbox)))]
  /\ inbox' = Tail(inbox)
  /\ UNCHANGED apiKey
  /\ UNCHANGED clientVars

\* req.json() of invocation i settles and the handler runs on to its next
\* await or to its return, reading the credential as it is now (part_000:29-108)
JsonStep(i) ==
  /\ inv[i].pc = "json"
  /\ ~inv[i].stalled
  /\ LET k == onJson(inv[i].req, apiKey, inv[i].steps)
     IN inv' = [inv EXCEPT ![i] =
                  Invocation(inv[i].req, IF ReadsCredential(k) THEN apiKey ELSE NoKey,
                             NoProvider, k)]
  /\ UNCHANGED <<inbox, apiKey>>
  /\ UNCHANGED clientVars

JsonSettles == \E i \in Invocations : JsonStep(i)

\* the fetch of invocation i settles: the provider answered as p, or the call
\* failed (part_000:101-111, 126)
FetchStep(i, p) ==
  /\ inv[i].pc = "fetch"
  /\ ~inv[i].stalled
  /\ inv' = [inv EXCEPT ![i] =
               Invocation(inv[i].req, inv[i].key, p, onFetch(p, inv[i].steps, inv[i].sent))]
  /\ UNCHANGED <<inbox, apiKey>>
  /\ UNCHANGED clientVars

FetchSettles == \E i \in Invocations : \E p \in ProviderOutcomes : FetchStep(i, p)

\* response.json() of invocation i settles and the handler returns
\* (part_000:110-139)
DecodeStep(i) ==
  /\ inv[i].pc = "decode"
  /\ ~inv[i].stalled
  /\ inv' = [inv EXCEPT ![i] =
               Invocation(inv[i].req, inv[i].key, inv[i].provider,
                          onDecode(inv[i].provider, inv[i].steps, inv[i].sent))]
  /\ UNCHANGED <<inbox, apiKey>>
  /\ UNCHANGED clientVars

DecodeSettles == \E i \in Invocations : DecodeStep(i)

\* the handler of invocation i runs on from the await it is suspended at
Proceeds(i) ==
  \/ JsonStep(i)
  \/ \E p \in ProviderOutcomes : FetchStep(i, p)
  \/ DecodeStep(i)

\* the operation invocation i awaits will never settle: the client stops
\* sending the body, the provider stays silent, or its reply never completes.
\* None of the three awaits has a timeout or an abort signal (part_000:29,
\* 101, 111, 126), so the handler stays suspended there
Stall ==
  \E i \in Invocations :
    /\ inv[i].pc \in {"json", "fetch", "decode"}
    /\ ~inv[i].stalled
    /\ inv' = [inv EXCEPT ![i].stalled = TRUE]
    /\ UNCHANGED <<inbox, apiKey>>
    /\ UNCHANGED clientVars

\* the operator sets, changes or removes RESEND_API_KEY in the environment
\* that Deno.env.get reads (part_000:55)
SetEnv ==
  /\ \E k \in ApiKeys \ {apiKey} : apiKey' = k
  /\ UNCHANGED <<inbox, inv>>
  /\ UNCHANGED clientVars

-----------------------------------------------------------------------------
(* The awaited call, as the Form Controller sees it *)

\* the text of a response's error property, "" when it has none
ErrorText(r) ==
  LET e == {pr \in r.body : pr[1] = "error"}
  IN IF e = {} THEN "" ELSE (CHOOSE pr \in e : TRUE)[2]

Outcome(r) == [kind |-> "response", status |-> r.status, error |-> ErrorText(r)]

\* every answer the relay gives a non-OPTIONS request, and the transport failure
CallOutcomes ==
  {Outcome(handler(r, k, p)) :
     r \in {q \in Requests : q.method # "OPTIONS"}, k \in ApiKeys, p \in ProviderOutcomes}
  \cup {TransportException}

\* sendContactEmail (./lib/supabase) resolves on a success response and throws on
\* a non-success response or a transport failure
sendContactEmailResolves(o) == o.kind = "response" /\ o.status = 200

\* the await at App.tsx:85 completes
RelayResponse ==
  /\ calls # <<>>
  /\ \E o \in CallOutcomes :
       /\ IF sendContactEmailResolves(o) THEN onResolved ELSE onRejected
       /\ last' = Event("relayResponse", "", <<>>, FALSE, o, formData # Head(calls))
  /\ calls' = Tail(calls)
  /\ UNCHANGED relayVars

-----------------------------------------------------------------------------
(* Specifications *)

InitClient ==
  /\ formData = EmptyForm
  /\ errors = NoErrors
  /\ status = "idle"
  /\ statusMessage = ""
  /\ calls = <<>>
  /\ last = Event("init", "", <<>>, FALSE, NoOutcome, FALSE)

InitRelayIdle ==
  /\ inbox = <<>>
  /\ apiKey = Undef
  /\ inv = [i \in Invocations |-> NotInvoked]

\* the Form Controller
Init == InitClient /\ InitRelayIdle

Next == UpdateField \/ Submit \/ RelayResponse \/ ResetStatus

Spec == Init /\ [][Next]_vars

\* the Form Controller when every awaited call completes
SpecLive == Spec /\ WF_vars(RelayResponse)

\* requests that arrive while another invocation is in progress: a preflight, a
\* GET, an unparseable POST, POSTs that fail each check, and a POST that
\* reaches the provider
ConcurrentRequests ==
  {Request("OPTIONS", FALSE, Undef, Undef, Undef, Undef),
   Request("GET", TRUE, Str(<<"a">>), Str(<<"a", "@", "b", ".", "c">>), Str(<<"s">>),
           Str(<<"h", "i", "\n", "!">>)),
   Request("POST", FALSE, Undef, Undef, Undef, Undef),
   Request("POST", TRUE, Str(<<>>), Str(<<"a", "@", "b", ".", "c">>), Str(<<"s">>),
           Str(<<"h", "i", "\n", "!">>)),
   Request("POST", TRUE, Str(<<"a">>), Str(<<"a", "@", "b">>), Str(<<"s">>),
           Str(<<"h", "i", "\n", "!">>)),
   Request("POST", TRUE, Str(<<"a">>), Str(<<"a", "@", "b", ".", "c">>), Str(<<"s">>), Num(7)),
   Request("POST", TRUE, Str(<<"a">>), Str(<<"a", "@", "b", ".", "c">>), Str(<<"s">>),
           Str(<<"h", "i", "\n", "!">>))}

\* the arrivals explored: every request on its own, and the concurrent requests
\* one after another
ConcurrentInboxes == UNION {[1..n -> ConcurrentRequests] : n \in 1..MaxInvocations}

Inboxes == {<<r>> : r \in Requests} \cup ConcurrentInboxes

\* the Submission Relay
InitRelay ==
  /\ InitClient
  /\ inbox \in Inboxes
  /\ apiKey \in ApiKeys
  /\ inv = [i \in Invocations |-> NotInvoked]

NextRelay == Invoke \/ JsonSettles \/ FetchSettles \/ DecodeSettles \/ Stall \/ SetEnv

SpecRelay == InitRelay /\ [][NextRelay]_vars

\* one submit of a form the user has typed into
MaxNameLen == 2
MaxPad == 1
MaxMessageLen == 11

Pad(l, s, r) == Rep(" ", l) \o s \o Rep("\n", r)

\* the well-formed address with a whitespace character other than the space in it
SpacedEmails ==
  {<<"a", "@", "b", ".", "c", "\r">>, <<"\f", "a", "@", "b", ".", "c">>,
   <<"a", "U+00A0", "@", "b", ".", "c">>, <<"a", "@", "b", ".", "U+2028", "c">>}

TypedNames == StringsUpTo({"a", " "}, MaxNameLen)
TypedEmails ==
  EmailInputs \cup SpacedEmails \cup
  {<<"a", "@", "b", ".">>, <<"@", "b", ".", "c">>, <<"a", "@", ".", "c">>,
   <<"a", "@", "@", "b", ".", "c">>, <<"a", "@", "b", ".", "c", " ">>,
   <<"a", "@", "b", ".", ".", "c">>, <<"a", ".", "b", "@", "c">>, <<"a", "b", ".", "c">>,
   <<"a", "@", "b", " ", ".", "c">>}
\* U+200B, the zero width space, is not whitespace
TypedSubjects == {<<>>, <<"\t">>, <<"s">>, <<"\r">>, <<"U+00A0">>, <<"U+200B">>}
TypedMessages ==
  {Pad(l, Rep("a", n), r) : l \in 0..MaxPad, n \in 0..MaxMessageLen, r \in 0..MaxPad}
  \cup {Rep("a", n) \o <<" ">> \o Rep("a", m) : n \in 1..MaxPad, m \in (MinMessageLength - 3)..(MinMessageLength - 1)}
  \cup {<<"U+FEFF">> \o Rep("a", n) \o <<"\r">> : n \in (MinMessageLength - 1)..MinMessageLength}

InitSubmit ==
  /\ formData \in [name : TypedNames, email : TypedEmails,
                   subject : TypedSubjects, message : TypedMessages]
  /\ errors = NoErrors
  /\ status = "idle"
  /\ statusMessage = ""
  /\ calls = <<>>
  /\ last = Event("init", "", <<>>, FALSE, NoOutcome, FALSE)
  /\ InitRelayIdle

NextSubmit == Submit

SpecSubmit == InitSubmit /\ [][NextSubmit]_vars

\* a POST to the relay whose JSON body is the form's four values
PostOf(data) ==
  Request("POST", TRUE, Str(data.name), Str(data.email), Str(data.subject), Str(data.message))

\* the form is submitted and its values are POSTed to the relay, which serves
\* the request step by step
NextPost == Submit \/ Invoke \/ JsonSettles \/ FetchSettles \/ DecodeSettles \/ Stall \/ SetEnv

\* one email string, judged by the client and by the relay
MaxEmailLen == 6

EmailStrings == StringsUpTo({"a", "@", ".", " "}, MaxEmailLen) \cup SpacedEmails

InitEmail ==
  /\ \E e \in EmailStrings :
       formData = [name |-> <<"a">>, email |-> e, subject |-> <<"s">>,
                   message |-> MessageFill \o <<"a">>]
  /\ errors = NoErrors
  /\ status = "idle"
  /\ statusMessage = ""
  /\ calls = <<>>
  /\ last = Event("init", "", <<>>, FALSE, NoOutcome, FALSE)
  /\ inbox = <<PostOf(formData)>>
  /\ apiKey = Str(<<"k">>)
  /\ inv = [i \in Invocations |-> NotInvoked]

SpecEmail == InitEmail /\ [][NextPost]_vars

\* one typed form, judged by the client and by the relay under every credential
\* and provider behaviour
InitPost ==
  /\ formData \in [name : TypedNames, email : TypedEmails,
                   subject : TypedSubjects, message : MessageInputs]
  /\ errors = NoErrors
  /\ status = "idle"
  /\ statusMessage = ""
  /\ calls = <<>>
  /\ last = Event("init", "", <<>>, FALSE, NoOutcome, FALSE)
  /\ inbox = <<PostOf(formData)>>
  /\ apiKey \in ApiKeys
  /\ inv = [i \in Invocations |-> NotInvoked]

SpecPost == InitPost /\ [][NextPost]_vars

-----------------------------------------------------------------------------
(* Claims about the Form Controller *)

\* C1: in every reachable state at most one relay call is outstanding, and
\* status is loading exactly while one is; so no submit starts a call while
\* status is loading (it would make a second one).
C1_OneCallInFlight ==
  /\ Len(calls) <= 1
  /\ status = "loading" <=> calls # <<>>

\* C1 witness: a field was edited while the one call is outstanding
C1_Witness ==
  /\ last.op = "updateField"
  /\ status = "loading"
  /\ Len(calls) = 1
  /\ formData # calls[1]

IsSubmitStep == last'.op \in {"submitAccepted", "submitRejected"}

\* C2: a submit whose validate() returns false leaves status, the status message
\* and the four field values unchanged and issues no relay call.
C2_RejectedSubmitFrame ==
  [][IsSubmitStep /\ ~validateForm(formData) =>
       /\ status' = status
       /\ statusMessage' = statusMessage
       /\ formData' = formData
       /\ calls' = calls
       /\ last'.op = "submitRejected"]_vars

\* C2 witness: a submit was rejected in the error status and recorded field errors
C2_Witness ==
  /\ last.op = "submitRejected"
  /\ status = "error"
  /\ statusMessage = FailureMessage
  /\ errors # NoErrors
  /\ formData # EmptyForm

IsResolveStep == last'.op = "relayResponse" /\ sendContactEmailResolves(last'.outcome)

\* C3: an accepted submit sets status to loading; while loading nothing but the
\* relay's answer changes status; a successful answer moves loading to success,
\* sets the fixed success message and empties the four fields, whatever was
\* typed meanwhile.
C3_ValidSubmitSucceeds ==
  [][/\ (IsSubmitStep /\ validateForm(formData) => status' = "loading")
     /\ (status = "loading" /\ last'.op # "relayResponse" => status' = "loading")
     /\ (IsResolveStep =>
           /\ status = "loading"
           /\ status' = "success"
           /\ statusMessage' = SuccessMessage
           /\ formData' = EmptyForm)]_vars

\* C3 witness: success was reached after the form was edited during the call
C3_Witness ==
  /\ last.op = "relayResponse"
  /\ last.outcome.status = 200
  /\ last.edited
  /\ status = "success"
  /\ statusMessage = SuccessMessage
  /\ formData = EmptyForm

\* the relay failures of the claim: a 405, 400 or 500 response, or a transport exception
IsFailureOutcome(o) ==
  \/ o.kind = "exception"
  \/ o.kind = "response" /\ o.status \in {405, 400, 500}

\* C4: every relay failure, of whatever kind, ends in status error with the one
\* fixed failure message, the field values (and field errors) as they were when
\* it arrived.
C4_AnyFailureSameState ==
  [][last'.op = "relayResponse" /\ IsFailureOutcome(last'.outcome) =>
       /\ status' = "error"
       /\ statusMessage' = FailureMessage
       /\ formData' = formData
       /\ errors' = errors
       /\ calls' = Tail(calls)]_vars

\* all five kinds of failure are among the outcomes a call can have
FailureKindsCovered ==
  /\ TransportException \in CallOutcomes
  /\ {o.status : o \in {c \in CallOutcomes : c.kind = "response"}} = {200, 400, 405, 500}
  /\ {o.error : o \in {c \in CallOutcomes : c.status = 500}}
       = {"Email service not configured", "Failed to send email", "Internal server error"}

\* C4 witness: every kind of failure can arrive; the configuration error did, and
\* the typed fields are kept
C4_Witness ==
  /\ FailureKindsCovered
  /\ last.op = "relayResponse"
  /\ last.outcome.error = "Email service not configured"
  /\ last.outcome.status = 500
  /\ status = "error"
  /\ statusMessage = FailureMessage
  /\ formData # EmptyForm

\* the claim's rule for a field: name and subject empty after trim; email empty
\* after trim or not of the pattern; message empty after trim or shorter than 10
ViolatesRule(f, data) ==
  CASE f = "name" -> trim(data.name) = <<>>
    [] f = "subject" -> trim(data.subject) = <<>>
    [] f = "email" -> trim(data.email) = <<>> \/ ~emailRegexTest(data.email)
    [] f = "message" -> trim(data.message) = <<>> \/ Len(trim(data.message)) < 10

ErrorFields == {f \in Fields : errors[f] # Undefined}

AfterSubmit == last.op \in {"submitAccepted", "submitRejected"}

\* C5: after a submit the FieldErrors mapping holds exactly the fields that
\* violate their rule, each judged independently; validate() returned true iff
\* there is none, and only then was a relay call made.  With one field empty and
\* the other three valid there is exactly one field error and no relay call.
C5_ValidateRecordsAllViolations ==
  AfterSubmit =>
    /\ ErrorFields = {f \in Fields : ViolatesRule(f, formData)}
    /\ last.op = "submitAccepted" <=> ErrorFields = {}
    /\ calls # <<>> <=> ErrorFields = {}
    /\ \A f \in Fields :
         (formData[f] = <<>> /\ \A g \in Fields \ {f} : ~ViolatesRule(g, formData))
           => Cardinality(ErrorFields) = 1 /\ calls = <<>>

\* C5 witness: name and message both fail while email and subject pass, and both
\* errors are recorded
C5_Witness ==
  /\ last.op = "submitRejected"
  /\ formData.name = <<>>
  /\ errors = [NoErrors EXCEPT !["name"] = NameRequired, !["message"] = MessageTooShort]
  /\ calls = <<>>

\* C6: after a submit, a message that is non-empty after trimming and whose
\* trimmed length is below 10 has the too-short error; one whose trimmed length
\* is 10 or more has no error, whatever its raw length.
C6_MessageLengthAfterTrim ==
  AfterSubmit =>
    LET t == trim(formData.message) IN
      /\ (0 < Len(t) /\ Len(t) < 10) => errors["message"] = MessageTooShort
      /\ Len(t) >= 10 => errors["message"] = Undefined

\* C6 witness: a raw message of 10 or more characters, 9 after trimming, is rejected
C6_Witness ==
  /\ AfterSubmit
  /\ Len(formData.message) >= 10
  /\ Len(trim(formData.message)) = 9
  /\ errors["message"] = MessageTooShort

\* C7: updateField(f, v) stores v as typed, clears the error of f, and leaves the
\* other fields, the other errors, status and the status message unchanged.
C7_UpdateFieldFrame ==
  [][last'.op = "updateField" =>
       /\ formData' = [formData EXCEPT ![last'.field] = last'.value]
       /\ errors' = [errors EXCEPT ![last'.field] = Undefined]
       /\ status' = status
       /\ statusMessage' = statusMessage
       /\ calls' = calls]_vars

\* C7 witness: an untrimmed name was stored, its error cleared, another field's
\* error kept
C7_Witness ==
  /\ last.op = "updateField"
  /\ last.field = "name"
  /\ last.hadError
  /\ formData.name = <<"a", " ">>
  /\ errors["name"] = Undefined
  /\ errors["email"] # Undefined

\* resetStatus, run in the current state, changes nothing the user can observe
ResetIsNoOp ==
  ENABLED (resetStatus /\ UNCHANGED <<status, statusMessage, formData, errors, calls>>)

\* C8: resetStatus sets status to idle and the status message to empty and
\* leaves the field values and field errors unchanged; run when status is idle
\* (as after a first resetStatus) it changes nothing.
C8_ResetStatusFrame ==
  /\ [][last'.op = "resetStatus" =>
          /\ status' = "idle"
          /\ statusMessage' = ""
          /\ formData' = formData
          /\ errors' = errors
          /\ calls' = calls]_vars
  /\ [](status = "idle" => ResetIsNoOp)

\* C8 witness: a banner was dismissed with typed fields and field errors in place
C8_Witness ==
  /\ last.op = "resetStatus"
  /\ status = "idle"
  /\ statusMessage = ""
  /\ formData # EmptyForm
  /\ errors # NoErrors

-----------------------------------------------------------------------------
(* Claims about the Submission Relay *)

\* the handler of invocation i has returned its Response
Responded(i) == inv[i].pc = "done"

\* invocation i has called the provider
ProviderCalled(i) == inv[i].sent # <<>>

\* the value of a response body's property, "" when it has none
BodyText(r, key) ==
  LET e == {pr \in r.body : pr[1] = key}
  IN IF e = {} THEN "" ELSE (CHOOSE pr \in e : TRUE)[2]

\* C9: an OPTIONS request, whatever its body and credential, is answered 200
\* with no body, after no check and without a call to the provider.
C9_OptionsAlwaysEmpty200 ==
  \A i \in Invocations :
    (inv[i].pc # "none" /\ inv[i].req.method = "OPTIONS") =>
      /\ Responded(i)
      /\ inv[i].resp.status = 200
      /\ ~inv[i].resp.hasBody
      /\ inv[i].resp.body = {}
      /\ inv[i].steps = <<>>
      /\ inv[i].key = NoKey
      /\ ~ProviderCalled(i)

\* C9 witness: an OPTIONS request with an unparseable body was answered with no
\* credential set, while an earlier invocation waits for the provider
C9_Witness ==
  /\ inv[1].pc = "fetch"
  /\ inv[2].req.method = "OPTIONS"
  /\ ~inv[2].req.parses
  /\ apiKey = Undef
  /\ Responded(2)
  /\ inv[2].resp.status = 200

\* a field that is missing or empty (an unparseable body has no field)
MissingOrEmpty(v) == ~Truthy(v)

AnyFieldMissing(r) ==
  \/ ~r.parses
  \/ \E f \in Fields : MissingOrEmpty(r[f])

ProviderSucceeds(p) == p.kind = "ok"

\* the status the claim's list of checks gives: method, required fields, email
\* shape, credential, provider outcome
ClaimedStatus(r, key, p) ==
  IF r.method # "POST" THEN 405
  ELSE IF AnyFieldMissing(r) THEN 400
  ELSE IF ~emailRegexTest(toStr(r.email)) THEN 400
  ELSE IF ~Truthy(key) THEN 500
  ELSE IF ~ProviderSucceeds(p) THEN 500
  ELSE 200

SuccessBodyCarriesId(i) ==
  inv[i].resp.status = 200 =>
    /\ <<"success", "true">> \in inv[i].resp.body
    /\ inv[i].provider.hasId => <<"id", inv[i].provider.id>> \in inv[i].resp.body

\* C10 as stated: the response to a non-OPTIONS request is the one of the first
\* failing check among method, required fields, email shape, credential and
\* provider outcome, and 200 with the provider's id when none fails.
C10_AsStated ==
  \A i \in Invocations :
    (Responded(i) /\ inv[i].req.method # "OPTIONS") =>
      /\ inv[i].resp.status = ClaimedStatus(inv[i].req, inv[i].key, inv[i].provider)
      /\ SuccessBodyCarriesId(i)

\* the list of checks with the three places where the handler throws into its
\* catch block: req.json() throws or yields null, the message is not a string
\* when the payload is built, the provider's reply cannot be decoded
AmendedStatus(r, key, p) ==
  IF r.method # "POST" THEN 405
  ELSE IF ~r.parses THEN 500
  ELSE IF \E f \in Fields : MissingOrEmpty(r[f]) THEN 400
  ELSE IF ~emailRegexTest(toStr(r.email)) THEN 400
  ELSE IF ~Truthy(key) THEN 500
  ELSE IF r.message.t # "string" THEN 500
  ELSE IF ~ProviderSucceeds(p) \/ ~p.decodes THEN 500
  ELSE 200

\* the error text that goes with each of these exits, "" for the 200
AmendedError(r, key, p) ==
  IF r.method # "POST" THEN "Method not allowed"
  ELSE IF ~r.parses THEN "Internal server error"
  ELSE IF \E f \in Fields : MissingOrEmpty(r[f]) THEN "All fields are required"
  ELSE IF ~emailRegexTest(toStr(r.email)) THEN "Invalid email format"
  ELSE IF ~Truthy(key) THEN "Email service not configured"
  ELSE IF r.message.t # "string" THEN "Internal server error"
  ELSE IF p.kind = "throws" \/ ~p.decodes THEN "Internal server error"
  ELSE IF ~ProviderSucceeds(p) THEN "Failed to send email"
  ELSE ""

\* C10 amended: the response to a non-OPTIONS request is the one of the first
\* failing check in the order method (405), body parses (500), required fields
\* (400), email shape (400), credential as read after the body was parsed
\* (500), message is a string (500), provider outcome and decodable reply
\* (500); 200 with success true and the provider's id when none fails.  Each
\* exit has its own error text, the generic one for the three throws.  The
\* credential is not read when an earlier check fails, and the provider is
\* called only when the credential is present and the message is a string.
C10_FirstFailingCheck ==
  \A i \in Invocations :
    (Responded(i) /\ inv[i].req.method # "OPTIONS") =>
      /\ inv[i].resp.status = AmendedStatus(inv[i].req, inv[i].key, inv[i].provider)
      /\ ErrorText(inv[i].resp) = AmendedError(inv[i].req, inv[i].key, inv[i].provider)
      /\ SuccessBodyCarriesId(i)
      /\ ProviderCalled(i) <=>
           /\ inv[i].key # NoKey
           /\ Truthy(inv[i].key)
           /\ inv[i].req.message.t = "string"
      /\ inv[i].key # NoKey <=>
           /\ inv[i].req.method = "POST"
           /\ inv[i].req.parses
           /\ \A f \in Fields : ~MissingOrEmpty(inv[i].req[f])
           /\ emailRegexTest(toStr(inv[i].req.email))

\* C10 witness: a POST with an empty field and no credential was answered 400
C10_Witness ==
  \E i \in Invocations :
    /\ Responded(i)
    /\ inv[i].req.method = "POST"
    /\ inv[i].req.parses
    /\ inv[i].req.name = Str(<<>>)
    /\ apiKey = Undef
    /\ inv[i].key = NoKey
    /\ inv[i].resp.status = 400
    /\ ErrorText(inv[i].resp) = "All fields are required"

\* the DeliveryError response: 500, the delivery-failure description, and the
\* provider's message or the fixed fallback as its detail
IsDeliveryError(r, p) ==
  /\ r.status = 500
  /\ r.hasBody
  /\ BodyText(r, "error") = "Failed to send email"
  /\ BodyText(r, "details") = (IF p.hasMessage /\ p.message # "" THEN p.message ELSE "Unknown error")

\* the generic response of the catch block
IsGenericError(r) ==
  /\ r.status = 500
  /\ r.hasBody
  /\ BodyText(r, "error") = "Internal server error"
  /\ BodyText(r, "details") = ""

\* the provider call of invocation i failed: at the transport level, or by a
\* non-success answer
ProviderFailed(i) ==
  /\ Responded(i)
  /\ ProviderCalled(i)
  /\ inv[i].provider.kind \in {"throws", "notOk"}

\* C11 as stated: when the provider call fails at the transport level or answers
\* with a non-success status, the response is the DeliveryError response.
C11_AsStated ==
  \A i \in Invocations :
    ProviderFailed(i) => IsDeliveryError(inv[i].resp, inv[i].provider)

\* C11 amended: a non-success provider answer whose body decodes gives the
\* DeliveryError response with the provider's message (or the fallback); a
\* transport failure of the call, or a non-success answer whose body does not
\* decode, gives the generic 500 of the catch block, without provider detail.
C11_DeliveryFailureResponses ==
  \A i \in Invocations :
    ProviderFailed(i) =>
      IF inv[i].provider.kind = "notOk" /\ inv[i].provider.decodes
        THEN IsDeliveryError(inv[i].resp, inv[i].provider)
        ELSE IsGenericError(inv[i].resp)

\* C11 witness: the provider refused with a message, and the response carries it
C11_Witness ==
  \E i \in Invocations :
    /\ ProviderFailed(i)
    /\ inv[i].provider.kind = "notOk"
    /\ inv[i].provider.message = "quota exceeded"
    /\ inv[i].resp.status = 500
    /\ <<"details", "quota exceeded">> \in inv[i].resp.body

\* a Response to a non-OPTIONS request is the 200 success, or has a 4xx or 5xx
\* status and a JSON body with an error property
IsStructured(r) ==
  \/ r.status = 200 /\ <<"success", "true">> \in r.body
  \/ /\ r.status \in 400..599
     /\ r.hasBody
     /\ \E pr \in r.body : pr[1] = "error" /\ pr[2] # ""

\* every Response returned to a non-OPTIONS request is structured
ResponsesStructured ==
  \A i \in Invocations :
    (Responded(i) /\ inv[i].req.method # "OPTIONS") => IsStructured(inv[i].resp)

\* how far the handler has come
Rank(pc) ==
  CASE pc = "none" -> 0
    [] pc = "json" -> 1
    [] pc = "fetch" -> 2
    [] pc = "decode" -> 3
    [] pc = "done" -> 4

\* C12 as stated: every invocation ends in exactly one response, structured if
\* it is a non-success response to a non-OPTIONS request: an invocation that has
\* no response yet is one whose handler will still run on towards it.
C12_AsStated ==
  /\ ResponsesStructured
  /\ \A i \in Invocations :
       inv[i].pc # "none" => Responded(i) \/ ENABLED Proceeds(i)

\* C12 amended: no invocation ends in an unhandled failure or in more than one
\* response, and every response is structured, also when the body cannot be
\* parsed, a field is not a string or the provider's reply cannot be decoded.
\* Each settling of an awaited operation takes the handler forwards, to its
\* next await or to its one response, so an invocation ends in a response
\* provided the operations it awaits (at most three) settle; none of them has
\* a timeout, so an invocation whose awaited operation never settles stays as
\* it is, without a response.
C12_AlwaysStructuredResponse ==
  /\ [](ResponsesStructured)
  /\ [](\A i \in Invocations : Responded(i) <=> inv[i].resp # NoResponse)
  /\ [](\A i \in Invocations :
          inv[i].pc # "none" =>
            \/ Responded(i)
            \/ ~inv[i].stalled /\ ENABLED Proceeds(i)
            \/ inv[i].stalled /\ ~ENABLED Proceeds(i))
  /\ [][\A i \in Invocations :
          /\ (Responded(i) \/ inv[i].stalled) => inv'[i] = inv[i]
          /\ inv'[i].pc # inv[i].pc => Rank(inv'[i].pc) > Rank(inv[i].pc)
          /\ (inv'[i] # inv[i] /\ inv'[i].pc = inv[i].pc) =>
               inv'[i] = [inv[i] EXCEPT !.stalled = TRUE]]_vars

\* the handler's answer to a POST whose body cannot be parsed, to one whose
\* message is not a string, and to one whose provider reply cannot be decoded
\* is the generic 500, and 400, 405 and 500 answers are all among its answers
ErrorCasesCovered ==
  /\ \A r \in {q \in Requests : q.method = "POST" /\ ~q.parses} :
       \A k \in ApiKeys : \A p \in ProviderOutcomes : IsGenericError(handler(r, k, p))
  /\ \E r \in Requests : \E p \in ProviderOutcomes :
       /\ ~p.decodes
       /\ p.kind = "ok"
       /\ handler(r, Str(<<"k">>), p).sent # <<>>
       /\ IsGenericError(handler(r, Str(<<"k">>), p))
  /\ {handler(r, k, p).status : r \in Requests, k \in ApiKeys, p \in ProviderOutcomes}
       = {200, 400, 405, 500}

\* C12 witness: a POST whose message is not a string was answered with the
\* generic 500 without a call to the provider, while an earlier invocation, its
\* payload sent, waits for a provider that will never answer
C12_Witness ==
  /\ ErrorCasesCovered
  /\ inv[1].pc = "fetch"
  /\ inv[1].stalled
  /\ ProviderCalled(1)
  /\ inv[1].resp = NoResponse
  /\ Responded(2)
  /\ inv[2].req.method = "POST"
  /\ inv[2].req.parses
  /\ inv[2].req.message.t = "number"
  /\ ~ProviderCalled(2)
  /\ IsGenericError(inv[2].resp)

StepCount(steps, step) == Cardinality({n \in 1..Len(steps) : steps[n] = step})

\* C14: in one invocation the provider is called at most once, and only for a
\* POST whose four fields are non-empty, whose email matches the pattern, with
\* the credential present; the 405, 400 and configuration-error responses are
\* given without a call, and a delivery failure is not followed by a second call.
C14_ProviderCalledAtMostOnce ==
  \A i \in Invocations :
    /\ Len(inv[i].sent) <= 1
    /\ StepCount(inv[i].steps, "provider") = Len(inv[i].sent)
    /\ ProviderCalled(i) =>
         /\ inv[i].req.method = "POST"
         /\ inv[i].req.parses
         /\ \A f \in Fields : ~MissingOrEmpty(inv[i].req[f])
         /\ emailRegexTest(toStr(inv[i].req.email))
         /\ inv[i].key.t = "string" /\ inv[i].key.s # <<>>
    /\ (Responded(i) /\ (inv[i].resp.status \in {405, 400}
                           \/ BodyText(inv[i].resp, "error") = "Email service not configured"))
         => ~ProviderCalled(i)
    /\ Responded(i) => inv[i].resp.sent = inv[i].sent

\* C14 witness: the one call failed and the failure was answered without
\* another, the credential having been removed since it was read
C14_Witness ==
  \E i \in Invocations :
    /\ Responded(i)
    /\ Len(inv[i].sent) = 1
    /\ inv[i].provider.kind = "notOk"
    /\ BodyText(inv[i].resp, "error") = "Failed to send email"
    /\ apiKey = Undef

\* C19: no payload forwarded to the provider has a field that is empty after
\* trimming: a request with a whitespace-only field never reaches the provider.
C19_ForwardedFieldsNonBlank ==
  \A i \in Invocations :
    ProviderCalled(i) => \A f \in Fields : trim(toStr(inv[i].req[f])) # <<>>


-----------------------------------------------------------------------------
(* Further claims about the Form Controller *)

\* C15: when every issued call completes, a state with status loading is
\* followed by one with status success or error; and nothing but the completion
\* of the call (no timeout, cancellation or retry) takes status out of loading.
C15_LoadingEventuallyEnds ==
  /\ (status = "loading") ~> (status \in {"success", "error"})
  /\ [][(status = "loading" /\ last'.op # "relayResponse") => status' = "loading"]_vars

\* C15 witness: a call completed with a transport failure after the form was edited
C15_Witness ==
  /\ last.op = "relayResponse"
  /\ last.outcome.kind = "exception"
  /\ last.edited
  /\ status = "error"

\* C16: status changes only from idle, success or error to loading by an
\* accepted submit, from loading to success or error by the call's outcome, and
\* from success or error to idle by resetStatus.
C16_OnlyStatusTransitions ==
  [][status' # status =>
       \/ /\ status \in {"idle", "success", "error"}
          /\ status' = "loading"
          /\ last'.op = "submitAccepted"
          /\ validateForm(formData)
       \/ /\ status = "loading"
          /\ status' \in {"success", "error"}
          /\ last'.op = "relayResponse"
          /\ status' = "success" <=> sendContactEmailResolves(last'.outcome)
       \/ /\ status \in {"success", "error"}
          /\ status' = "idle"
          /\ last'.op = "resetStatus"]_vars

\* C16 witness: a submit accepted in the success status, without a reset, moved it to loading
C16_Witness ==
  /\ last.op = "submitAccepted"
  /\ status = "loading"
  /\ statusMessage = SuccessMessage

\* C17: an accepted submit issues one call whose payload is the four values
\* validate() accepted; every outstanding payload satisfies the client's rules,
\* and updateField leaves the outstanding payloads as they are.
C17_PayloadIsValidatedSnapshot ==
  /\ [](\A i \in 1..Len(calls) : \A f \in Fields : ~ViolatesRule(f, calls[i]))
  /\ [][/\ (IsSubmitStep /\ validateForm(formData)) => calls' = Append(calls, formData)
        /\ last'.op = "updateField" => calls' = calls]_vars

\* C17 witness: during the call the form was edited into an invalid one, the payload is still valid
C17_Witness ==
  /\ last.op = "updateField"
  /\ Len(calls) = 1
  /\ validateForm(calls[1])
  /\ ~validateForm(formData)
  /\ calls[1].name = <<"a", " ">>

\* C18 as stated: the status message is empty when status is idle or loading,
\* the success message when success, the failure message when error.
C18_AsStated ==
  /\ status \in {"idle", "loading"} => statusMessage = ""
  /\ status = "success" => statusMessage = SuccessMessage
  /\ status = "error" => statusMessage = FailureMessage

\* C18 amended: the status message is empty when status is idle, the success
\* message when success, the failure message when error; while status is loading
\* it is what it was when the submit was accepted: empty, or the message of the
\* previous attempt when its banner was not dismissed.
C18_MessageFollowsStatus ==
  /\ [](/\ status = "idle" => statusMessage = ""
        /\ status = "success" => statusMessage = SuccessMessage
        /\ status = "error" => statusMessage = FailureMessage
        /\ status = "loading" => statusMessage \in {"", SuccessMessage, FailureMessage})
  /\ [][status' = "loading" => statusMessage' = statusMessage]_vars

\* C18 witness: loading with the failure message of the previous attempt
C18_Witness ==
  /\ status = "loading"
  /\ statusMessage = FailureMessage
  /\ Len(calls) = 1

-----------------------------------------------------------------------------
(* Claims about the client and the relay together *)

HasAt(e) == \E i \in 1..Len(e) : e[i] = "@"
HasDotAfterAt(e) == \E i \in 1..Len(e) : \E j \in (i + 1)..Len(e) : e[i] = "@" /\ e[j] = "."
HasWhitespace(e) == \E i \in 1..Len(e) : e[i] \in Whitespace

\* the relay has answered the POST of the form's values
PostAnswered == Responded(1) /\ inv[1].req = PostOf(formData)

ClientRejectsEmail == errors["email"] # Undefined
RelayRejectsEmail == inv[1].resp.status = 400

\* C13: for every email string the client's check and the relay's re-check agree;
\* both reject a value without "@", without "." after the "@", empty or with
\* whitespace, and both accept a@a.a.
C13_EmailChecksAgree ==
  (AfterSubmit /\ PostAnswered) =>
    /\ ClientRejectsEmail <=> RelayRejectsEmail
    /\ (~HasAt(formData.email) \/ ~HasDotAfterAt(formData.email)
          \/ formData.email = <<>> \/ HasWhitespace(formData.email))
         => ClientRejectsEmail /\ RelayRejectsEmail
    /\ formData.email = <<"a", "@", "a", ".", "a">>
         => ~ClientRejectsEmail /\ ~RelayRejectsEmail

\* C13 witness: a@a.a passed the client's check and the relay's
C13_Witness ==
  /\ AfterSubmit
  /\ PostAnswered
  /\ formData.email = <<"a", "@", "a", ".", "a">>
  /\ errors["email"] = Undefined
  /\ inv[1].resp.status = 200

\* C20: a POST carrying a payload the client's validate() accepted is never
\* answered 400: without a credential when the relay reads it, it is answered
\* 500; with one, by what the provider did.
C20_ClientValidPassesRelay ==
  (last.op = "submitAccepted" /\ PostAnswered) =>
    /\ inv[1].resp.status # 400
    /\ inv[1].resp.status = (IF ~Truthy(inv[1].key) THEN 500
                             ELSE IF inv[1].provider.kind = "ok" /\ inv[1].provider.decodes THEN 200
                             ELSE 500)
    /\ inv[1].key # NoKey
    /\ ~Truthy(inv[1].key) <=> ~ProviderCalled(1)

\* C20 witness: an accepted form with an untrimmed name was delivered
C20_Witness ==
  /\ last.op = "submitAccepted"
  /\ PostAnswered
  /\ formData.name = <<"a", " ">>
  /\ calls = <<formData>>
  /\ inv[1].resp.status = 200

====
